---------------------------- MODULE Spec2Model ----------------------------
(***************************************************************************)
(* Model of torchvision/prototype/transforms/_auto_augment.py: the four    *)
(* augmentation strategies AutoAugment, RandAugment, TrivialAugmentWide    *)
(* and AugMix, their catalogues (_AUGMENTATION_SPACE), the AutoAugment     *)
(* policy tables, the inline magnitude sampling and the operation          *)
(* dispatcher _apply_image_transform.                                      *)
(*                                                                         *)
(* Numbers.  A float is modelled by the exact rational it stands for, a    *)
(* pair <<num, den>> in lowest terms with den > 0.  An optional value      *)
(* (Optional[int], a lambda returning None) is a sequence of length 0 or 1.*)
(* A uniform draw torch.rand(()) is u / RandGrid for u in 0..RandGrid-1,   *)
(* which is in [0, 1) as in torch.  A Dirichlet draw is a vector of        *)
(* naturals that sums to WeightGrid, standing for component / WeightGrid.  *)
(*                                                                         *)
(* Images.  The image library (F.affine, F.rotate, ...) is external: an    *)
(* image value is [type, nops, blend], its representation, the number of   *)
(* library operations applied to the call's input to obtain it, and, for   *)
(* an AugMix output, the terms of the weighted sum it is.                  *)
(***************************************************************************)
EXTENDS Integers, Sequences, FiniteSets, TLC

VARIABLES
  args,       \* the arguments of the constructor call that made (or failed to make) obj
  obj,        \* the strategy object (self), or NoObj
  raised,     \* the exception the last constructor or call raised, or "none"
  pc,         \* where the current call is
  inpt,       \* the input value of the current call
  params,     \* the dict _get_params returned for the current call
  gate,       \* AutoAugment: the latest probability draw u, standing for u / RandGrid
  image,      \* the working image of the call: inpt in the loops, aug in AugMix
  k,          \* loop position: the policy step, the RandAugment repetition, the AugMix chain i
  j,          \* AugMix: operations applied in the current chain
  depth,      \* AugMix: depth of the current chain
  m,          \* AugMix: the 2-component Dirichlet draw
  combined_weights, \* AugMix: per-chain weights
  mix,        \* AugMix: the accumulator
  last,       \* the latest magnitude sampling and dispatcher invocation of the call in progress
  ndispatch,  \* number of dispatcher invocations of the latest call
  result      \* the value the call returned

vars == <<args, obj, raised, pc, inpt, params, gate, image, k, j, depth, m, combined_weights,
          mix, last, ndispatch, result>>

callvars == <<pc, inpt, params, gate, image, k, j, depth, m, combined_weights,
              mix, last, ndispatch, result>>

---------------------------------------------------------------------------
(* Bounds of the model *)

RandGrid == 4        \* resolution of a uniform draw
WeightGrid == 2      \* resolution of a Dirichlet draw
MaxNumOps == 2       \* RandAugment: num_ops in 0..MaxNumOps
MaxBins == 3         \* RandAugment, TrivialAugmentWide: num_magnitude_bins in 2..MaxBins
MaxWidth == 2        \* AugMix: mixture_width in 0..MaxWidth

(* Program constants *)

PARAMETER_MAX == 10      \* AugMix.__init__: self._PARAMETER_MAX
AutoAugmentBins == 10    \* AutoAugment._transform: magnitudes_fn(10, ...)
DepthLow == 1            \* AugMix._transform: torch.randint(low=1, high=4)
DepthHigh == 4

---------------------------------------------------------------------------
(* Optional values and rationals *)

None == <<>>
Some(x) == <<x>>
IsNone(o) == Len(o) = 0
The(o) == o[1]

Abs(x) == IF x < 0 THEN -x ELSE x

RECURSIVE GCD(_, _)
GCD(a, b) == IF b = 0 THEN a ELSE GCD(b, a % b)

Rat(n, d) ==
  LET g == GCD(Abs(n), Abs(d))
      s == IF d < 0 THEN -1 ELSE 1
  IN  <<(s * n) \div g, (s * d) \div g>>

RatInt(n) == <<n, 1>>
RatAdd(a, b) == Rat(a[1] * b[2] + b[1] * a[2], a[2] * b[2])
RatSub(a, b) == Rat(a[1] * b[2] - b[1] * a[2], a[2] * b[2])
RatMul(a, b) == Rat(a[1] * b[1], a[2] * b[2])
RatNeg(a) == <<-a[1], a[2]>>
RatLeq(a, b) == a[1] * b[2] <= b[1] * a[2]

\* int(x) of a float: truncation toward zero
Trunc(a) == IF a[1] >= 0 THEN a[1] \div a[2] ELSE -((-a[1]) \div a[2])

\* torch.round of a non-negative value: to nearest, ties to even
RoundHalfEven(a) ==
  LET q == a[1] \div a[2]
      r == a[1] % a[2]
  IN  IF 2 * r < a[2] THEN q
      ELSE IF 2 * r > a[2] THEN q + 1
      ELSE IF q % 2 = 0 THEN q ELSE q + 1

\* math.degrees(x) = x * 180 / pi, kept as the rational 180 * x in units of 1/pi degree
Degrees(a) == RatMul(RatInt(180), a)

---------------------------------------------------------------------------
(* The catalogues.  An entry is the operation identifier, its magnitude    *)
(* lambda and its signed flag.  The lambdas have three shapes:             *)
(*   "none"      lambda num_bins, height, width: None                      *)
(*   "linspace"  torch.linspace(start, end * dim, num_bins), dim one of    *)
(*               1, width, height                                          *)
(*   "posterize" (start - (torch.arange(num_bins) / ((num_bins - 1) / end)))*)
(*               .round().int()                                            *)

NoMagnitude == [kind |-> "none", start |-> RatInt(0), end |-> RatInt(0), dim |-> "one"]
Linspace(s, e, d) == [kind |-> "linspace", start |-> s, end |-> e, dim |-> d]
PosterizeBits(base, span) ==
  [kind |-> "posterize", start |-> RatInt(base), end |-> RatInt(span), dim |-> "one"]

Entry(id, fn, signed) == [id |-> id, fn |-> fn, signed |-> signed]

AutoAugment_AUGMENTATION_SPACE ==
  << Entry("ShearX", Linspace(RatInt(0), Rat(3, 10), "one"), TRUE),
     Entry("ShearY", Linspace(RatInt(0), Rat(3, 10), "one"), TRUE),
     Entry("TranslateX", Linspace(RatInt(0), Rat(150, 331), "width"), TRUE),
     Entry("TranslateY", Linspace(RatInt(0), Rat(150, 331), "height"), TRUE),
     Entry("Rotate", Linspace(RatInt(0), RatInt(30), "one"), TRUE),
     Entry("Brightness", Linspace(RatInt(0), Rat(9, 10), "one"), TRUE),
     Entry("Color", Linspace(RatInt(0), Rat(9, 10), "one"), TRUE),
     Entry("Contrast", Linspace(RatInt(0), Rat(9, 10), "one"), TRUE),
     Entry("Sharpness", Linspace(RatInt(0), Rat(9, 10), "one"), TRUE),
     Entry("Posterize", PosterizeBits(8, 4), FALSE),
     Entry("Solarize", Linspace(RatInt(255), RatInt(0), "one"), FALSE),
     Entry("AutoContrast", NoMagnitude, FALSE),
     Entry("Equalize", NoMagnitude, FALSE),
     Entry("Invert", NoMagnitude, FALSE) >>

RandAugment_AUGMENTATION_SPACE ==
  << Entry("Identity", NoMagnitude, FALSE),
     Entry("ShearX", Linspace(RatInt(0), Rat(3, 10), "one"), TRUE),
     Entry("ShearY", Linspace(RatInt(0), Rat(3, 10), "one"), TRUE),
     Entry("TranslateX", Linspace(RatInt(0), Rat(150, 331), "width"), TRUE),
     Entry("TranslateY", Linspace(RatInt(0), Rat(150, 331), "height"), TRUE),
     Entry("Rotate", Linspace(RatInt(0), RatInt(30), "one"), TRUE),
     Entry("Brightness", Linspace(RatInt(0), Rat(9, 10), "one"), TRUE),
     Entry("Color", Linspace(RatInt(0), Rat(9, 10), "one"), TRUE),
     Entry("Contrast", Linspace(RatInt(0), Rat(9, 10), "one"), TRUE),
     Entry("Sharpness", Linspace(RatInt(0), Rat(9, 10), "one"), TRUE),
     Entry("Posterize", PosterizeBits(8, 4), FALSE),
     Entry("Solarize", Linspace(RatInt(255), RatInt(0), "one"), FALSE),
     Entry("AutoContrast", NoMagnitude, FALSE),
     Entry("Equalize", NoMagnitude, FALSE) >>

\* a catalogue with an entry the dispatcher has no branch for
TrivialAugmentWide_space_with_Cutout ==
  << Entry("Identity", NoMagnitude, FALSE),
     Entry("Cutout", NoMagnitude, FALSE) >>

TrivialAugmentWide_AUGMENTATION_SPACE ==
  << Entry("Identity", NoMagnitude, FALSE),
     Entry("ShearX", Linspace(RatInt(0), Rat(99, 100), "one"), TRUE),
     Entry("ShearY", Linspace(RatInt(0), Rat(99, 100), "one"), TRUE),
     Entry("TranslateX", Linspace(RatInt(0), RatInt(32), "one"), TRUE),
     Entry("TranslateY", Linspace(RatInt(0), RatInt(32), "one"), TRUE),
     Entry("Rotate", Linspace(RatInt(0), RatInt(135), "one"), TRUE),
     Entry("Brightness", Linspace(RatInt(0), Rat(99, 100), "one"), TRUE),
     Entry("Color", Linspace(RatInt(0), Rat(99, 100), "one"), TRUE),
     Entry("Contrast", Linspace(RatInt(0), Rat(99, 100), "one"), TRUE),
     Entry("Sharpness", Linspace(RatInt(0), Rat(99, 100), "one"), TRUE),
     Entry("Posterize", PosterizeBits(8, 6), FALSE),
     Entry("Solarize", Linspace(RatInt(255), RatInt(0), "one"), FALSE),
     Entry("AutoContrast", NoMagnitude, FALSE),
     Entry("Equalize", NoMagnitude, FALSE) >>

AugMix_PARTIAL_AUGMENTATION_SPACE ==
  << Entry("ShearX", Linspace(RatInt(0), Rat(3, 10), "one"), TRUE),
     Entry("ShearY", Linspace(RatInt(0), Rat(3, 10), "one"), TRUE),
     Entry("TranslateX", Linspace(RatInt(0), Rat(1, 3), "width"), TRUE),
     Entry("TranslateY", Linspace(RatInt(0), Rat(1, 3), "height"), TRUE),
     Entry("Rotate", Linspace(RatInt(0), RatInt(30), "one"), TRUE),
     Entry("Posterize", PosterizeBits(4, 4), FALSE),
     Entry("Solarize", Linspace(RatInt(255), RatInt(0), "one"), FALSE),
     Entry("AutoContrast", NoMagnitude, FALSE),
     Entry("Equalize", NoMagnitude, FALSE) >>

AugMix_AUGMENTATION_SPACE ==
  AugMix_PARTIAL_AUGMENTATION_SPACE \o
  << Entry("Brightness", Linspace(RatInt(0), Rat(9, 10), "one"), TRUE),
     Entry("Color", Linspace(RatInt(0), Rat(9, 10), "one"), TRUE),
     Entry("Contrast", Linspace(RatInt(0), Rat(9, 10), "one"), TRUE),
     Entry("Sharpness", Linspace(RatInt(0), Rat(9, 10), "one"), TRUE) >>

\* dct.keys() and dct[key]
Keys(dct) == [n \in 1..Len(dct) |-> dct[n].id]
HasKey(dct, key) == \E n \in 1..Len(dct) : dct[n].id = key
Lookup(dct, key) == dct[CHOOSE n \in 1..Len(dct) : dct[n].id = key]

DimOf(fn, height, width) ==
  IF fn.dim = "width" THEN RatInt(width)
  ELSE IF fn.dim = "height" THEN RatInt(height)
  ELSE RatInt(1)

\* A 1-d tensor: its length and its elements
Tensor(len, at) == [len |-> len, at |-> at]

\* torch.linspace(start, end, steps)
TorchLinspace(start, end, steps) ==
  Tensor(steps,
         [n \in 1..steps |->
            IF steps = 1 THEN start
            ELSE Rat(start[1] * end[2] * (steps - 1)
                       + (n - 1) * (end[1] * start[2] - start[1] * end[2]),
                     start[2] * end[2] * (steps - 1))])

\* (start - (torch.arange(num_bins) / ((num_bins - 1) / end))).round().int(), num_bins >= 2
TorchPosterize(start, end, num_bins) ==
  Tensor(num_bins,
         [n \in 1..num_bins |->
            RatInt(start[1] - RoundHalfEven(Rat((n - 1) * end[1], num_bins - 1)))])

\* magnitudes_fn(num_bins, height, width): None, or the tensor of magnitudes
Magnitudes(fn, num_bins, height, width) ==
  IF fn.kind = "none" THEN None
  ELSE IF fn.kind = "linspace"
       THEN LET e == RatMul(fn.end, DimOf(fn, height, width))
            IN  Some(TorchLinspace(fn.start, e, num_bins))
  ELSE Some(TorchPosterize(fn.start, fn.end, num_bins))

---------------------------------------------------------------------------
(* Image values *)

Value(type) == [type |-> type, nops |-> 0, blend |-> <<>>]
NoValue == Value("none")

\* every tensor counts as an image, a features.BoundingBox too
IsImageLikeAnyTensor(v) == v.type \in {"Image", "PIL", "Tensor", "BoundingBox"}

\* isinstance(inpt, (features.Image, PIL.Image.Image)) or is_simple_tensor(inpt)
IsImageLike(v) == v.type \in {"Image", "PIL", "Tensor"}

\* the image a library operation returns
Applied(img) == [img EXCEPT !.nops = @ + 1]

---------------------------------------------------------------------------
(* _AutoAugmentBase._apply_image_transform.  The result is the exception   *)
(* raised if any, the library call made (its function and exactly the      *)
(* keyword arguments the code passes) and the image returned.              *)

Returned(call, img) == [raised |-> "none", call |-> call, image |-> img]

apply_image_transform(img, transform_id, magnitude, interpolation, fill) ==
  CASE transform_id = "Identity" ->
         Returned([fn |-> "none"], img)
    [] transform_id = "ShearX" ->
         Returned([fn |-> "affine", angle |-> RatInt(0), translate |-> <<0, 0>>,
                   scale |-> RatInt(1), shear |-> <<Degrees(magnitude), RatInt(0)>>,
                   interpolation |-> interpolation, fill |-> fill], Applied(img))
    [] transform_id = "ShearY" ->
         Returned([fn |-> "affine", angle |-> RatInt(0), translate |-> <<0, 0>>,
                   scale |-> RatInt(1), shear |-> <<RatInt(0), Degrees(magnitude)>>,
                   interpolation |-> interpolation, fill |-> fill], Applied(img))
    [] transform_id = "TranslateX" ->
         Returned([fn |-> "affine", angle |-> RatInt(0), translate |-> <<Trunc(magnitude), 0>>,
                   scale |-> RatInt(1), shear |-> <<RatInt(0), RatInt(0)>>,
                   interpolation |-> interpolation, fill |-> fill], Applied(img))
    [] transform_id = "TranslateY" ->
         Returned([fn |-> "affine", angle |-> RatInt(0), translate |-> <<0, Trunc(magnitude)>>,
                   scale |-> RatInt(1), shear |-> <<RatInt(0), RatInt(0)>>,
                   interpolation |-> interpolation, fill |-> fill], Applied(img))
    [] transform_id = "Rotate" ->
         Returned([fn |-> "rotate", angle |-> magnitude], Applied(img))
    [] transform_id = "Brightness" ->
         Returned([fn |-> "adjust_brightness",
                   brightness_factor |-> RatAdd(RatInt(1), magnitude)], Applied(img))
    [] transform_id = "Color" ->
         Returned([fn |-> "adjust_saturation",
                   saturation_factor |-> RatAdd(RatInt(1), magnitude)], Applied(img))
    [] transform_id = "Contrast" ->
         Returned([fn |-> "adjust_contrast",
                   contrast_factor |-> RatAdd(RatInt(1), magnitude)], Applied(img))
    [] transform_id = "Sharpness" ->
         Returned([fn |-> "adjust_sharpness",
                   sharpness_factor |-> RatAdd(RatInt(1), magnitude)], Applied(img))
    [] transform_id = "Posterize" ->
         Returned([fn |-> "posterize", bits |-> Trunc(magnitude)], Applied(img))
    [] transform_id = "Solarize" ->
         Returned([fn |-> "solarize", threshold |-> magnitude], Applied(img))
    [] transform_id = "AutoContrast" ->
         Returned([fn |-> "autocontrast"], Applied(img))
    [] transform_id = "Equalize" ->
         Returned([fn |-> "equalize"], Applied(img))
    [] transform_id = "Invert" ->
         Returned([fn |-> "invert"], Applied(img))
    [] OTHER ->
         [raised |-> "ValueError", call |-> [fn |-> "none"], image |-> img]

---------------------------------------------------------------------------
(* The magnitude sampling each _transform does inline:                     *)
(*     magnitudes = magnitudes_fn(num_bins, height, width)                 *)
(*     if magnitudes is not None:                                          *)
(*         magnitude = float(magnitudes[idx])                              *)
(*         if signed and torch.rand(()) <= 0.5:                            *)
(*             magnitude *= -1                                             *)
(*     else:                                                               *)
(*         magnitude = 0.0                                                 *)

\* float(tensor[idx]) for a 1-d tensor: a negative index counts from the end,
\* an index outside [-n, n) raises IndexError; tensor[None] has shape (1, n),
\* and float() of it raises ValueError unless it holds one element.
TensorItem(tensor, idx) ==
  LET n == tensor.len IN
  IF IsNone(idx)
  THEN IF n = 1 THEN [raised |-> "none", value |-> tensor.at[1]]
       ELSE [raised |-> "ValueError", value |-> RatInt(0)]
  ELSE LET i == The(idx) IN
       IF 0 <= i /\ i < n THEN [raised |-> "none", value |-> tensor.at[i + 1]]
       ELSE IF -n <= i /\ i < 0 THEN [raised |-> "none", value |-> tensor.at[n + i + 1]]
       ELSE [raised |-> "IndexError", value |-> RatInt(0)]

\* torch.rand(()) <= 0.5 for the draw u / RandGrid
CoinFlips(u) == 2 * u <= RandGrid

\* the sign is flipped on the coin alone, whatever the signed flag is
SampleMagnitudeAnySign(entry, num_bins, idx, u, height, width) ==
  LET magnitudes == Magnitudes(entry.fn, num_bins, height, width) IN
  IF ~IsNone(magnitudes)
  THEN LET item == TensorItem(The(magnitudes), idx) IN
       IF item.raised # "none"
       THEN [raised |-> item.raised, idx |-> idx, coin |-> None, magnitude |-> RatInt(0)]
       ELSE [raised |-> "none", idx |-> idx,
             coin |-> IF entry.signed THEN Some(CoinFlips(u)) ELSE None,
             magnitude |-> IF CoinFlips(u) THEN RatNeg(item.value) ELSE item.value]
  ELSE [raised |-> "none", idx |-> None, coin |-> None, magnitude |-> RatInt(0)]

\* entry: the catalogue entry; idx: the bin index (optional); u: the coin draw.
\* coin records whether the coin was drawn and, if so, whether it flipped the sign.
SampleMagnitude(entry, num_bins, idx, u, height, width) ==
  LET magnitudes == Magnitudes(entry.fn, num_bins, height, width) IN
  IF ~IsNone(magnitudes)
  THEN LET item == TensorItem(The(magnitudes), idx) IN
       IF item.raised # "none"
       THEN [raised |-> item.raised, idx |-> idx, coin |-> None, magnitude |-> RatInt(0)]
       ELSE IF entry.signed
            THEN [raised |-> "none", idx |-> idx, coin |-> Some(CoinFlips(u)),
                  magnitude |-> IF CoinFlips(u) THEN RatNeg(item.value) ELSE item.value]
            ELSE [raised |-> "none", idx |-> idx, coin |-> None, magnitude |-> item.value]
  ELSE [raised |-> "none", idx |-> None, coin |-> None, magnitude |-> RatInt(0)]

---------------------------------------------------------------------------
(* The AutoAugment policy tables.  A step is (transform_id, probability,   *)
(* magnitude_idx); the probability p / 10 is kept as the rational.         *)

St(id, tenths, idx) == [id |-> id, probability |-> Rat(tenths, 10), magnitude_idx |-> idx]

IMAGENET_policies ==
  << <<St("Posterize", 4, Some(8)), St("Rotate", 6, Some(9))>>,
     <<St("Solarize", 6, Some(5)), St("AutoContrast", 6, None)>>,
     <<St("Equalize", 8, None), St("Equalize", 6, None)>>,
     <<St("Posterize", 6, Some(7)), St("Posterize", 6, Some(6))>>,
     <<St("Equalize", 4, None), St("Solarize", 2, Some(4))>>,
     <<St("Equalize", 4, None), St("Rotate", 8, Some(8))>>,
     <<St("Solarize", 6, Some(3)), St("Equalize", 6, None)>>,
     <<St("Posterize", 8, Some(5)), St("Equalize", 10, None)>>,
     <<St("Rotate", 2, Some(3)), St("Solarize", 6, Some(8))>>,
     <<St("Equalize", 6, None), St("Posterize", 4, Some(6))>>,
     <<St("Rotate", 8, Some(8)), St("Color", 4, Some(0))>>,
     <<St("Rotate", 4, Some(9)), St("Equalize", 6, None)>>,
     <<St("Equalize", 0, None), St("Equalize", 8, None)>>,
     <<St("Invert", 6, None), St("Equalize", 10, None)>>,
     <<St("Color", 6, Some(4)), St("Contrast", 10, Some(8))>>,
     <<St("Rotate", 8, Some(8)), St("Color", 10, Some(2))>>,
     <<St("Color", 8, Some(8)), St("Solarize", 8, Some(7))>>,
     <<St("Sharpness", 4, Some(7)), St("Invert", 6, None)>>,
     <<St("ShearX", 6, Some(5)), St("Equalize", 10, None)>>,
     <<St("Color", 4, Some(0)), St("Equalize", 6, None)>>,
     <<St("Equalize", 4, None), St("Solarize", 2, Some(4))>>,
     <<St("Solarize", 6, Some(5)), St("AutoContrast", 6, None)>>,
     <<St("Invert", 6, None), St("Equalize", 10, None)>>,
     <<St("Color", 6, Some(4)), St("Contrast", 10, Some(8))>>,
     <<St("Equalize", 8, None), St("Equalize", 6, None)>> >>

CIFAR10_policies ==
  << <<St("Invert", 1, None), St("Contrast", 2, Some(6))>>,
     <<St("Rotate", 7, Some(2)), St("TranslateX", 3, Some(9))>>,
     <<St("Sharpness", 8, Some(1)), St("Sharpness", 9, Some(3))>>,
     <<St("ShearY", 5, Some(8)), St("TranslateY", 7, Some(9))>>,
     <<St("AutoContrast", 5, None), St("Equalize", 9, None)>>,
     <<St("ShearY", 2, Some(7)), St("Posterize", 3, Some(7))>>,
     <<St("Color", 4, Some(3)), St("Brightness", 6, Some(7))>>,
     <<St("Sharpness", 3, Some(9)), St("Brightness", 7, Some(9))>>,
     <<St("Equalize", 6, None), St("Equalize", 5, None)>>,
     <<St("Contrast", 6, Some(7)), St("Sharpness", 6, Some(5))>>,
     <<St("Color", 7, Some(7)), St("TranslateX", 5, Some(8))>>,
     <<St("Equalize", 3, None), St("AutoContrast", 4, None)>>,
     <<St("TranslateY", 4, Some(3)), St("Sharpness", 2, Some(6))>>,
     <<St("Brightness", 9, Some(6)), St("Color", 2, Some(8))>>,
     <<St("Solarize", 5, Some(2)), St("Invert", 0, None)>>,
     <<St("Equalize", 2, None), St("AutoContrast", 6, None)>>,
     <<St("Equalize", 2, None), St("Equalize", 6, None)>>,
     <<St("Color", 9, Some(9)), St("Equalize", 6, None)>>,
     <<St("AutoContrast", 8, None), St("Solarize", 2, Some(8))>>,
     <<St("Brightness", 1, Some(3)), St("Color", 7, Some(0))>>,
     <<St("Solarize", 4, Some(5)), St("AutoContrast", 9, None)>>,
     <<St("TranslateY", 9, Some(9)), St("TranslateY", 7, Some(9))>>,
     <<St("AutoContrast", 9, None), St("Solarize", 8, Some(3))>>,
     <<St("Equalize", 8, None), St("Invert", 1, None)>>,
     <<St("TranslateY", 7, Some(9)), St("AutoContrast", 9, None)>> >>

SVHN_policies ==
  << <<St("ShearX", 9, Some(4)), St("Invert", 2, None)>>,
     <<St("ShearY", 9, Some(8)), St("Invert", 7, None)>>,
     <<St("Equalize", 6, None), St("Solarize", 6, Some(6))>>,
     <<St("Invert", 9, None), St("Equalize", 6, None)>>,
     <<St("Equalize", 6, None), St("Rotate", 9, Some(3))>>,
     <<St("ShearX", 9, Some(4)), St("AutoContrast", 8, None)>>,
     <<St("ShearY", 9, Some(8)), St("Invert", 4, None)>>,
     <<St("ShearY", 9, Some(5)), St("Solarize", 2, Some(6))>>,
     <<St("Invert", 9, None), St("AutoContrast", 8, None)>>,
     <<St("Equalize", 6, None), St("Rotate", 9, Some(3))>>,
     <<St("ShearX", 9, Some(4)), St("Solarize", 3, Some(3))>>,
     <<St("ShearY", 8, Some(8)), St("Invert", 7, None)>>,
     <<St("Equalize", 9, None), St("TranslateY", 6, Some(6))>>,
     <<St("Invert", 9, None), St("Equalize", 6, None)>>,
     <<St("Contrast", 3, Some(3)), St("Rotate", 8, Some(4))>>,
     <<St("Invert", 8, None), St("TranslateY", 0, Some(2))>>,
     <<St("ShearY", 7, Some(6)), St("Solarize", 4, Some(8))>>,
     <<St("Invert", 6, None), St("Rotate", 8, Some(4))>>,
     <<St("ShearY", 3, Some(7)), St("TranslateX", 9, Some(3))>>,
     <<St("ShearX", 1, Some(6)), St("Invert", 6, None)>>,
     <<St("Solarize", 7, Some(2)), St("TranslateY", 6, Some(7))>>,
     <<St("ShearY", 8, Some(4)), St("Invert", 8, None)>>,
     <<St("ShearX", 7, Some(9)), St("TranslateY", 8, Some(3))>>,
     <<St("ShearY", 8, Some(5)), St("AutoContrast", 7, None)>>,
     <<St("ShearX", 7, Some(2)), St("Invert", 1, None)>> >>

\* a table that lost its last sub-policy
get_policies_short(policy) ==
  IF policy = "IMAGENET" THEN [raised |-> "none", value |-> IMAGENET_policies]
  ELSE IF policy = "CIFAR10" THEN [raised |-> "none", value |-> CIFAR10_policies]
  ELSE IF policy = "SVHN"
       THEN [raised |-> "none", value |-> SubSeq(SVHN_policies, 1, Len(SVHN_policies) - 1)]
  ELSE [raised |-> "ValueError", value |-> <<>>]

\* AutoAugment._get_policies
get_policies(policy) ==
  IF policy = "IMAGENET" THEN [raised |-> "none", value |-> IMAGENET_policies]
  ELSE IF policy = "CIFAR10" THEN [raised |-> "none", value |-> CIFAR10_policies]
  ELSE IF policy = "SVHN" THEN [raised |-> "none", value |-> SVHN_policies]
  ELSE [raised |-> "ValueError", value |-> <<>>]

---------------------------------------------------------------------------
(* Construction *)

NoObj == [kind |-> "none"]
NoArgs == [cls |-> "none"]

Fill(kind, value) == [kind |-> kind, value |-> value]

Failed(exc) == [raised |-> exc, obj |-> NoObj]
Made(o) == [raised |-> "none", obj |-> o]

\* isinstance(fill, (numbers.Number, tuple, list))
FillTypeOk(fill) == fill.kind \in {"number", "tuple", "list"}

\* _AutoAugmentBase.__init__
Base_init(interpolation, fill) ==
  IF ~FillTypeOk(fill) THEN Failed("TypeError")
  ELSE Made([interpolation |-> interpolation, fill |-> fill])

\* AutoAugment.__init__
AutoAugment_init(a) ==
  LET base == Base_init(a.interpolation, a.fill)
      tbl == get_policies(a.policy)
  IN  IF base.raised # "none" THEN base
      ELSE IF tbl.raised # "none" THEN Failed(tbl.raised)
      ELSE Made([kind |-> "AutoAugment", interpolation |-> base.obj.interpolation,
                 fill |-> base.obj.fill, policy |-> a.policy, policies |-> tbl.value])

\* RandAugment.__init__
RandAugment_init(a) ==
  LET base == Base_init(a.interpolation, a.fill)
  IN  IF base.raised # "none" THEN base
      ELSE Made([kind |-> "RandAugment", interpolation |-> base.obj.interpolation,
                 fill |-> base.obj.fill, num_ops |-> a.num_ops, magnitude |-> a.magnitude,
                 num_magnitude_bins |-> a.num_magnitude_bins])

\* TrivialAugmentWide.__init__
TrivialAugmentWide_init(a) ==
  LET base == Base_init(a.interpolation, a.fill)
  IN  IF base.raised # "none" THEN base
      ELSE Made([kind |-> "TrivialAugmentWide", interpolation |-> base.obj.interpolation,
                 fill |-> base.obj.fill, num_magnitude_bins |-> a.num_magnitude_bins])

\* 0 <= severity <= self._PARAMETER_MAX
SeverityOkFromZero(severity) == 0 <= severity /\ severity <= PARAMETER_MAX

\* 1 <= severity <= self._PARAMETER_MAX
SeverityOk(severity) == 1 <= severity /\ severity <= PARAMETER_MAX

\* AugMix.__init__
AugMix_init(a) ==
  LET base == Base_init(a.interpolation, a.fill)
  IN  IF base.raised # "none" THEN base
      ELSE IF ~SeverityOk(a.severity) THEN Failed("ValueError")
      ELSE Made([kind |-> "AugMix", interpolation |-> base.obj.interpolation,
                 fill |-> base.obj.fill, PARAMETER_MAX |-> PARAMETER_MAX,
                 severity |-> a.severity, mixture_width |-> a.mixture_width,
                 chain_depth |-> a.chain_depth, alpha |-> a.alpha, all_ops |-> a.all_ops])

Construct(a) ==
  CASE a.cls = "AutoAugment" -> AutoAugment_init(a)
    [] a.cls = "RandAugment" -> RandAugment_init(a)
    [] a.cls = "TrivialAugmentWide" -> TrivialAugmentWide_init(a)
    [] a.cls = "AugMix" -> AugMix_init(a)

(* Constructor arguments tried *)

Interpolations == {"NEAREST", "BILINEAR"}
Fills == {Fill("number", <<0>>), Fill("tuple", <<1, 2, 3>>), Fill("list", <<1, 2, 3>>),
          Fill("str", <<>>), Fill("NoneType", <<>>)}
Policies == {"IMAGENET", "CIFAR10", "SVHN", "OTHER"}
Severities == 0..(PARAMETER_MAX + 1)
MagnitudeArgs == {9, 30}
Alphas == {1}

AutoAugmentArgs(I, F) ==
  [cls : {"AutoAugment"}, policy : Policies, interpolation : I, fill : F]
RandAugmentArgs(I, F) ==
  [cls : {"RandAugment"}, num_ops : 0..MaxNumOps, magnitude : MagnitudeArgs,
   num_magnitude_bins : 2..MaxBins, interpolation : I, fill : F]
TrivialAugmentWideArgs(I, F) ==
  [cls : {"TrivialAugmentWide"}, num_magnitude_bins : 2..MaxBins, interpolation : I, fill : F]
ChainDepthArgs == {-1, 0, 1, 2}
AugMixArgs(S, W, D, I, F) ==
  [cls : {"AugMix"}, severity : S, mixture_width : W, chain_depth : D,
   alpha : Alphas, all_ops : BOOLEAN, interpolation : I, fill : F]

---------------------------------------------------------------------------
(* Random draws *)

\* torch.randint(high, ()): an integer in [0, high)
RandInt(high) == 0..(high - 1)

\* the draw is over [0, high]
RandomBinInclusive(high) == 0..high

\* int(torch.randint(high, ())) where it is used as a bin index
RandomBin(high) == RandInt(high)

\* torch.randint(low=, high=): an integer in [low, high)
RandIntRange(low, high) == low..(high - 1)

\* torch.rand(()): u stands for u / RandGrid
Rand == 0..(RandGrid - 1)

\* the vectors of n naturals that sum to total
RECURSIVE Compositions(_, _)
Compositions(total, n) ==
  IF n = 0 THEN {<<>>}
  ELSE IF n = 1 THEN {<<total>>}
  ELSE UNION {{<<c>> \o rest : rest \in Compositions(total - c, n - 1)} : c \in 0..total}

\* AugMix._sample_dirichlet for n concentration parameters (one image in the batch)
SampleDirichlet(n) ==
  {[i \in 1..n |-> Rat(c[i], WeightGrid)] : c \in Compositions(WeightGrid, n)}

RECURSIVE RatSum(_)
RatSum(s) == IF s = <<>> THEN RatInt(0) ELSE RatAdd(Head(s), RatSum(Tail(s)))

---------------------------------------------------------------------------
(* Calls *)

InputTypes == {"Image", "PIL", "Tensor", "BoundingBox"}
ImageSizes == {<<32, 48>>}     \* (height, width) that query_chw finds in the sample

NoFill == Fill("none", <<>>)
NoDispatch ==
  [id |-> "none", bins |-> 0, idx |-> None, coin |-> None, magnitude |-> RatInt(0),
   image_in |-> NoValue, interpolation |-> "none", fill |-> NoFill, call |-> [fn |-> "none"]]
NoParams == [height |-> 0, width |-> 0]

\* No call is in progress
Idle ==
  /\ pc = "idle" /\ inpt = NoValue /\ params = NoParams /\ gate = None
  /\ image = NoValue /\ k = 0 /\ j = 0 /\ depth = 0 /\ m = <<>>
  /\ combined_weights = <<>> /\ mix = NoValue /\ last = NoDispatch
  /\ ndispatch = 0 /\ result = NoValue

\* Transform.forward up to the call of _transform: the state of a fresh call
Begin(v, p) ==
  /\ pc' = "transform" /\ inpt' = v /\ params' = p /\ gate' = None
  /\ image' = v /\ k' = 0 /\ j' = 0 /\ depth' = 0 /\ m' = <<>>
  /\ combined_weights' = <<>> /\ mix' = NoValue /\ last' = NoDispatch
  /\ ndispatch' = 0 /\ result' = NoValue /\ raised' = "none"
  /\ UNCHANGED <<args, obj>>

\* _AutoAugmentBase._get_params
Base_get_params(size) == [height |-> size[1], width |-> size[2]]

\* AutoAugment._get_params; n is the draw torch.randint(len(self._policies), ())
AutoAugment_get_params_of(size, n) ==
  [height |-> size[1], width |-> size[2], policy |-> obj.policies[n + 1]]

get_params ==
  /\ pc = "idle"
  /\ obj.kind \in {"RandAugment", "TrivialAugmentWide", "AugMix"}
  /\ \E t \in InputTypes, size \in ImageSizes : Begin(Value(t), Base_get_params(size))

AutoAugment_get_params ==
  /\ pc = "idle"
  /\ obj.kind = "AutoAugment"
  /\ \E t \in InputTypes, size \in ImageSizes, n \in RandInt(Len(obj.policies)) :
       Begin(Value(t), AutoAugment_get_params_of(size, n))

\* The locals of _transform and forward end with the call
EndOfCall ==
  /\ pc' = "idle" /\ params' = NoParams /\ gate' = None /\ image' = NoValue
  /\ k' = 0 /\ j' = 0 /\ depth' = 0 /\ m' = <<>> /\ combined_weights' = <<>>
  /\ mix' = NoValue /\ last' = NoDispatch

\* return v
Return(v) ==
  /\ EndOfCall /\ result' = v
  /\ UNCHANGED <<args, obj, raised, inpt, ndispatch>>

\* an exception leaves the call
Raise(exc) ==
  /\ EndOfCall /\ raised' = exc
  /\ UNCHANGED <<args, obj, inpt, ndispatch, result>>

\* One sampled and dispatched operation on img: the exception if any, the record of
\* the sampling and of the dispatcher invocation, and the image returned.
Operation(img, entry, num_bins, idx, u) ==
  LET s == SampleMagnitude(entry, num_bins, idx, u, params.height, params.width)
      r == apply_image_transform(img, entry.id, s.magnitude, obj.interpolation, obj.fill)
  IN  [raised |-> IF s.raised # "none" THEN s.raised ELSE r.raised,
       last |-> [id |-> entry.id, bins |-> num_bins, idx |-> s.idx, coin |-> s.coin,
                 magnitude |-> s.magnitude, image_in |-> img,
                 interpolation |-> obj.interpolation, fill |-> obj.fill, call |-> r.call],
       image |-> r.image]

\* The loop goes to its next item: the locals of the iteration are dead
NextItem ==
  /\ pc' = "loop" /\ gate' = None /\ last' = NoDispatch
  /\ UNCHANGED <<args, obj, raised, inpt, params, image, depth, m, combined_weights,
                 mix, ndispatch, result>>

\* the dispatch leaves its interpolation mode in the object
DispatchedStoring(op) ==
  /\ pc' = "body" /\ last' = op.last /\ image' = op.image /\ ndispatch' = ndispatch + 1
  /\ obj' = [obj EXCEPT !.interpolation = "NEAREST"]
  /\ UNCHANGED <<args, raised, inpt, params, k, j, depth, m, combined_weights,
                 mix, result>>

\* The body of a loop dispatched op: it stands at the end of the iteration
Dispatched(op) ==
  /\ pc' = "body" /\ last' = op.last /\ image' = op.image /\ ndispatch' = ndispatch + 1
  /\ UNCHANGED <<args, obj, raised, inpt, params, k, j, depth, m, combined_weights,
                 mix, result>>

(* AutoAugment._transform *)

AutoAugment_transform ==
  /\ pc = "transform" /\ obj.kind = "AutoAugment"
  /\ IF ~IsImageLike(inpt)
     THEN Return(inpt)
     ELSE /\ pc' = "loop" /\ k' = 1
          /\ UNCHANGED <<args, obj, raised, inpt, params, gate, image, j, depth, m,
                         combined_weights, mix, last, ndispatch, result>>

\* not torch.rand(()) < probability
SkippedStrict(u, probability) == RatLeq(probability, Rat(u, RandGrid))

\* not torch.rand(()) <= probability, for the draw u / RandGrid
Skipped(u, probability) == ~RatLeq(Rat(u, RandGrid), probability)

\* the body of: for transform_id, probability, magnitude_idx in params["policy"]
AutoAugment_step ==
  /\ pc = "loop" /\ obj.kind = "AutoAugment" /\ k <= Len(params.policy)
  /\ \E u \in Rand, c \in Rand :
       LET step == params.policy[k] IN
       IF Skipped(u, step.probability)
       THEN /\ gate' = Some(u) /\ pc' = "body"
            /\ UNCHANGED <<args, obj, raised, inpt, params, image, k, j, depth, m,
                           combined_weights, mix, last, ndispatch, result>>
       ELSE IF ~HasKey(AutoAugment_AUGMENTATION_SPACE, step.id)
       THEN Raise("KeyError")
       ELSE LET op == Operation(image, Lookup(AutoAugment_AUGMENTATION_SPACE, step.id),
                                AutoAugmentBins, step.magnitude_idx, c) IN
            IF op.raised # "none"
            THEN Raise(op.raised)
            ELSE gate' = Some(u) /\ Dispatched(op)

AutoAugment_next ==
  /\ pc = "body" /\ obj.kind = "AutoAugment"
  /\ k' = k + 1 /\ j' = j
  /\ NextItem

AutoAugment_return ==
  /\ pc = "loop" /\ obj.kind = "AutoAugment" /\ k > Len(params.policy)
  /\ Return(image)

(* RandAugment._transform *)

RandAugment_transform ==
  /\ pc = "transform" /\ obj.kind = "RandAugment"
  /\ IF ~IsImageLike(inpt)
     THEN Return(inpt)
     ELSE /\ pc' = "loop" /\ k' = 0
          /\ UNCHANGED <<args, obj, raised, inpt, params, gate, image, j, depth, m,
                         combined_weights, mix, last, ndispatch, result>>

\* range(self.num_ops + 1)
RandAugment_range_one_more == RandInt(obj.num_ops + 1)

\* range(self.num_ops)
RandAugment_range == RandInt(obj.num_ops)

\* what one iteration of o draws: the catalogue position, the bin, the coin
RandAugment_draws(o) ==
  RandInt(Len(RandAugment_AUGMENTATION_SPACE)) \X RandomBin(o.num_magnitude_bins) \X Rand

\* the body of: for _ in range(self.num_ops)
RandAugment_step ==
  /\ pc = "loop" /\ obj.kind = "RandAugment" /\ k \in RandAugment_range
  /\ \E d \in RandAugment_draws(obj) :
       LET op == Operation(image, RandAugment_AUGMENTATION_SPACE[d[1] + 1],
                           obj.num_magnitude_bins, Some(d[2]), d[3]) IN
       IF op.raised # "none"
       THEN Raise(op.raised)
       ELSE gate' = gate /\ Dispatched(op)

RandAugment_next ==
  /\ pc = "body" /\ obj.kind = "RandAugment"
  /\ k' = k + 1 /\ j' = j
  /\ NextItem

RandAugment_return ==
  /\ pc = "loop" /\ obj.kind = "RandAugment" /\ k \notin RandAugment_range
  /\ Return(image)

(* TrivialAugmentWide._transform *)

TrivialAugmentWide_transform ==
  /\ pc = "transform" /\ obj.kind = "TrivialAugmentWide"
  /\ IF ~IsImageLike(inpt)
     THEN Return(inpt)
     ELSE \E n \in RandInt(Len(TrivialAugmentWide_AUGMENTATION_SPACE)),
             idx \in RandomBin(obj.num_magnitude_bins), c \in Rand :
            LET op == Operation(image, TrivialAugmentWide_AUGMENTATION_SPACE[n + 1],
                                obj.num_magnitude_bins, Some(idx), c) IN
            IF op.raised # "none"
            THEN Raise(op.raised)
            ELSE gate' = gate /\ Dispatched(op)

\* return self._apply_image_transform(...)
TrivialAugmentWide_return ==
  /\ pc = "body" /\ obj.kind = "TrivialAugmentWide"
  /\ Return(image)

(* AugMix._transform *)

\* pil_to_tensor / to_pil_image / features.Image.new_like: the value in another representation
As(type, v) == [v EXCEPT !.type = type]

\* image (and batch, a view of it): the input as a tensor
Batch(v) == IF v.type = "PIL" THEN As("Tensor", v) ELSE v

\* self._AUGMENTATION_SPACE if self.all_ops else self._PARTIAL_AUGMENTATION_SPACE
augmentation_space ==
  IF obj.all_ops THEN AugMix_AUGMENTATION_SPACE ELSE AugMix_PARTIAL_AUGMENTATION_SPACE

\* the Dirichlet weights are not scaled by m[:, 1]
CombinedWeightsUnscaled(w, mm) == [i \in 1..Len(w) |-> w[i]]

\* self._sample_dirichlet(...) * m[:, 1]
CombinedWeights(w, mm) == [i \in 1..Len(w) |-> RatMul(w[i], mm[2])]

\* a term weight * image of the accumulator
Term(w, img) == [w |-> w, image |-> img]

AugMix_transform ==
  /\ pc = "transform" /\ obj.kind = "AugMix"
  /\ IF ~IsImageLike(inpt)
     THEN Return(inpt)
     ELSE \E mm \in SampleDirichlet(2), w \in SampleDirichlet(obj.mixture_width) :
            /\ m' = mm
            /\ combined_weights' = CombinedWeights(w, mm)
            /\ mix' = [Value("Tensor") EXCEPT !.blend = <<Term(mm[1], Batch(inpt))>>]
            /\ image' = Batch(inpt)
            /\ pc' = "chains" /\ k' = 0
            /\ UNCHANGED <<args, obj, raised, inpt, params, gate, j, depth, last,
                           ndispatch, result>>

\* the per-chain draw includes its upper end
ChainDepthsInclusive ==
  IF obj.chain_depth > 0 THEN {obj.chain_depth} ELSE DepthLow..DepthHigh

\* self.chain_depth if self.chain_depth > 0 else int(torch.randint(low=1, high=4, size=(1,)).item())
ChainDepths ==
  IF obj.chain_depth > 0 THEN {obj.chain_depth} ELSE RandIntRange(DepthLow, DepthHigh)

\* for i in range(self.mixture_width): aug = batch; depth = ...
AugMix_chain ==
  /\ pc = "chains" /\ obj.kind = "AugMix" /\ k \in RandInt(obj.mixture_width)
  /\ \E d \in ChainDepths :
       /\ image' = Batch(inpt) /\ depth' = d /\ j' = 0 /\ pc' = "loop"
       /\ UNCHANGED <<args, obj, raised, inpt, params, gate, k, m, combined_weights,
                      mix, last, ndispatch, result>>

\* the body of: for _ in range(depth)
AugMix_op ==
  /\ pc = "loop" /\ obj.kind = "AugMix" /\ j \in RandInt(depth)
  /\ \E n \in RandInt(Len(augmentation_space)), idx \in RandomBin(obj.severity), c \in Rand :
       LET op == Operation(image, augmentation_space[n + 1], obj.PARAMETER_MAX,
                           Some(idx), c) IN
       IF op.raised # "none"
       THEN Raise(op.raised)
       ELSE gate' = gate /\ Dispatched(op)

AugMix_next ==
  /\ pc = "body" /\ obj.kind = "AugMix"
  /\ j' = j + 1 /\ k' = k
  /\ NextItem

\* mix.add_(combined_weights[:, i].view(batch_dims) * aug)
AugMix_add ==
  /\ pc = "loop" /\ obj.kind = "AugMix" /\ j \notin RandInt(depth)
  /\ mix' = [mix EXCEPT !.blend = Append(@, Term(combined_weights[k + 1], image))]
  /\ k' = k + 1 /\ pc' = "chains"
  /\ UNCHANGED <<args, obj, raised, inpt, params, gate, image, j, depth, m,
                 combined_weights, last, ndispatch, result>>

\* mix.view(orig_dims).to(dtype=image.dtype), then back to the representation of inpt
AugMix_return ==
  /\ pc = "chains" /\ obj.kind = "AugMix" /\ k \notin RandInt(obj.mixture_width)
  /\ Return(As(inpt.type, mix))

---------------------------------------------------------------------------
(* Spec: the calls of a constructed strategy object.  The objects are made  *)
(* by the constructors from the arguments CallArgs.  For AugMix these are:  *)
(* every number of chains with every chain_depth >= 0 at severity 1, and,   *)
(* for a single chain, the default chain_depth -1 and the extreme           *)
(* severities with both interpolation modes.                                *)

CallInterpolations == Interpolations
CallFills == {Fill("number", <<0>>)}
CallSeverities == {1, PARAMETER_MAX}

CallArgs ==
  AutoAugmentArgs(CallInterpolations, CallFills) \cup
  RandAugmentArgs(CallInterpolations, CallFills) \cup
  TrivialAugmentWideArgs(CallInterpolations, CallFills) \cup
  AugMixArgs({1}, 0..MaxWidth, {0, 1, 2}, {"BILINEAR"}, CallFills) \cup
  AugMixArgs({1}, {1}, {-1}, {"BILINEAR"}, CallFills) \cup
  AugMixArgs(CallSeverities, {1}, {1}, CallInterpolations, CallFills)

Init ==
  /\ args \in CallArgs
  /\ Construct(args).raised = "none"
  /\ obj = Construct(args).obj
  /\ raised = "none"
  /\ Idle

Next ==
  \/ get_params
  \/ AutoAugment_get_params
  \/ AutoAugment_transform
  \/ AutoAugment_step
  \/ AutoAugment_next
  \/ AutoAugment_return
  \/ RandAugment_transform
  \/ RandAugment_step
  \/ RandAugment_next
  \/ RandAugment_return
  \/ TrivialAugmentWide_transform
  \/ TrivialAugmentWide_return
  \/ AugMix_transform
  \/ AugMix_chain
  \/ AugMix_op
  \/ AugMix_next
  \/ AugMix_add
  \/ AugMix_return

Spec == Init /\ [][Next]_vars

---------------------------------------------------------------------------
(* SpecConstruct: construction, from every combination of arguments tried *)

New(a) ==
  /\ args = NoArgs
  /\ args' = a
  /\ raised' = Construct(a).raised
  /\ obj' = Construct(a).obj
  /\ UNCHANGED callvars

NewAutoAugment == \E a \in AutoAugmentArgs(Interpolations, Fills) : New(a)
NewRandAugment == \E a \in RandAugmentArgs(Interpolations, Fills) : New(a)
NewTrivialAugmentWide == \E a \in TrivialAugmentWideArgs(Interpolations, Fills) : New(a)
NewAugMix ==
  \E a \in AugMixArgs(Severities, 0..MaxWidth, ChainDepthArgs, Interpolations, Fills) : New(a)

InitConstruct == args = NoArgs /\ obj = NoObj /\ raised = "none" /\ Idle

NextConstruct == NewAutoAugment \/ NewRandAugment \/ NewTrivialAugmentWide \/ NewAugMix

SpecConstruct == InitConstruct /\ [][NextConstruct]_vars

---------------------------------------------------------------------------
(* SpecSample: the magnitude sampling as a function of its inputs, the bin  *)
(* index taken from beyond both ends of [0, num_bins)                       *)

SpaceNames == {"AutoAugment", "RandAugment", "TrivialAugmentWide", "AugMixPartial", "AugMix"}

SpaceNamed(name) ==
  CASE name = "AutoAugment" -> AutoAugment_AUGMENTATION_SPACE
    [] name = "RandAugment" -> RandAugment_AUGMENTATION_SPACE
    [] name = "TrivialAugmentWide" -> TrivialAugmentWide_AUGMENTATION_SPACE
    [] name = "AugMixPartial" -> AugMix_PARTIAL_AUGMENTATION_SPACE
    [] name = "AugMix" -> AugMix_AUGMENTATION_SPACE

SampleBins == {AutoAugmentBins} \cup 2..MaxBins

Sample ==
  /\ args = NoArgs
  /\ \E name \in SpaceNames, bins \in SampleBins, size \in ImageSizes, u \in Rand :
       \E n \in 1..Len(SpaceNamed(name)), idx \in (-(bins + 1))..(bins + 1) :
         LET entry == SpaceNamed(name)[n]
             s == SampleMagnitude(entry, bins, Some(idx), u, size[1], size[2])
         IN  /\ args' = [cls |-> "sample", space |-> name, id |-> entry.id,
                         num_bins |-> bins, idx |-> idx]
             /\ raised' = s.raised
             /\ last' = IF s.raised # "none" THEN NoDispatch
                        ELSE [NoDispatch EXCEPT !.id = entry.id, !.bins = bins, !.idx = s.idx,
                                                !.coin = s.coin, !.magnitude = s.magnitude]
             /\ params' = Base_get_params(size)
             /\ UNCHANGED <<obj, pc, inpt, gate, image, k, j, depth, m, combined_weights,
                            mix, ndispatch, result>>

NextSample == Sample

SpecSample == InitConstruct /\ [][NextSample]_vars

---------------------------------------------------------------------------
(* Properties *)

\* the coefficients of the terms of a weighted sum
BlendWeights(v) == [i \in 1..Len(v.blend) |-> v.blend[i].w]

\* C1: in an AugMix call with mixture_width >= 1 (every Dirichlet draw summing
\* to 1), the original-image weight m[0] plus the weights combined_weights[i] of
\* all the chains is 1, and so is the sum of the coefficients of the output.
C1_WeightsSumToOne ==
  (obj.kind = "AugMix" /\ obj.mixture_width >= 1) =>
    /\ m # <<>> =>
         /\ Len(combined_weights) = obj.mixture_width
         /\ RatSum(combined_weights) = m[2]
         /\ RatAdd(m[1], RatSum(combined_weights)) = RatInt(1)
    /\ result.blend # <<>> =>
         /\ Len(result.blend) = 1 + obj.mixture_width
         /\ RatSum(BlendWeights(result)) = RatInt(1)

\* an AugMix call of two chains has returned a sum in which the original and
\* both chains have a positive weight
C1_Witness ==
  /\ obj.kind = "AugMix" /\ obj.mixture_width = 2 /\ pc = "idle"
  /\ Len(result.blend) = 3
  /\ \A i \in 1..3 : result.blend[i].w[1] > 0

\* C2: in each of the four strategies a call on a value that is not image-like
\* dispatches nothing and returns the identical value.
C2_NonImagePassThrough ==
  (inpt # NoValue /\ inpt.type \notin {"Image", "PIL", "Tensor"}) =>
    /\ pc \in {"transform", "idle"}
    /\ ndispatch = 0 /\ last = NoDispatch /\ raised = "none"
    /\ pc = "idle" => result = inpt

\* an AugMix call on a bounding box has returned it
C2_Witness ==
  /\ obj.kind = "AugMix" /\ pc = "idle" /\ inpt.type = "BoundingBox"
  /\ result = inpt /\ ndispatch = 0

\* the draw u / RandGrid is strictly greater than the probability p
DrawExceeds(u, p) == u * p[2] > p[1] * RandGrid

\* C3: an AutoAugment call on an image works on one sub-policy of the loaded
\* table and takes its steps in order; a step is skipped exactly when its draw
\* is strictly greater than its probability, and is otherwise dispatched with
\* 10 bins and the step's bin index, on the image the previous step left; so at
\* most two operations are dispatched, and the k-th dispatch is not before step k.
C3_FixedPolicySteps ==
  (obj.kind = "AutoAugment" /\ pc \in {"loop", "body"}) =>
    /\ \E n \in 1..Len(obj.policies) : params.policy = obj.policies[n]
    /\ Len(params.policy) = 2
    /\ k \in 1..3 /\ ndispatch <= 2 /\ ndispatch <= k
    /\ image.nops = ndispatch /\ image.type = inpt.type
    /\ pc = "loop" => ndispatch <= k - 1
    /\ pc = "body" =>
         LET step == params.policy[k] IN
         /\ k <= 2 /\ ~IsNone(gate)
         /\ (last = NoDispatch) <=> DrawExceeds(The(gate), step.probability)
         /\ step.probability = RatInt(1) => last # NoDispatch
         /\ last # NoDispatch =>
              /\ last.id = step.id
              /\ last.bins = 10
              /\ last.idx = step.magnitude_idx
              /\ last.image_in.nops = ndispatch - 1
              /\ last.image_in.type = inpt.type

\* both steps of a sub-policy were dispatched, the second with probability 1.0
C3_Witness ==
  /\ obj.kind = "AutoAugment" /\ pc = "body" /\ k = 2 /\ ndispatch = 2
  /\ params.policy[2].probability = RatInt(1)
  /\ last.id = params.policy[2].id /\ last.image_in.nops = 1

\* the catalogue of the strategy object
SpaceOf(o) ==
  CASE o.kind = "AutoAugment" -> AutoAugment_AUGMENTATION_SPACE
    [] o.kind = "RandAugment" -> RandAugment_AUGMENTATION_SPACE
    [] o.kind = "TrivialAugmentWide" -> TrivialAugmentWide_AUGMENTATION_SPACE
    [] o.kind = "AugMix" ->
         IF o.all_ops THEN AugMix_AUGMENTATION_SPACE ELSE AugMix_PARTIAL_AUGMENTATION_SPACE

Geometric == {"ShearX", "ShearY", "TranslateX", "TranslateY", "Rotate"}
Photometric == {"Brightness", "Color", "Contrast", "Sharpness", "Posterize", "Solarize",
                "AutoContrast", "Equalize", "Invert"}
MagnitudeFree == {"Identity", "AutoContrast", "Equalize", "Invert"}
Unsigned == {"Posterize", "Solarize"}

HasArg(call, name) == name \in DOMAIN call

\* C4: the dispatcher passes the interpolation mode and the fill value it was
\* given, unchanged, to the library call of every geometric operation, and
\* neither of them to a photometric operation.
C4_RenderingPassedToGeometric ==
  last # NoDispatch =>
    /\ last.id \in Geometric =>
         /\ HasArg(last.call, "interpolation") /\ HasArg(last.call, "fill")
         /\ last.call.interpolation = last.interpolation
         /\ last.call.fill = last.fill
    /\ last.id \in Photometric =>
         ~HasArg(last.call, "interpolation") /\ ~HasArg(last.call, "fill")

\* C5: the magnitude handed to the dispatcher is 0.0 for a magnitude-free entry
\* whatever the bin index, the value of the selected bin for an unsigned
\* magnitude-bearing entry, and that value or its negation for a signed entry,
\* the negation chosen by a coin that is drawn for signed magnitude-bearing
\* entries only.
C5_MagnitudeHandedOver ==
  last # NoDispatch =>
    LET entry == Lookup(SpaceOf(obj), last.id)
        magnitudes == Magnitudes(entry.fn, last.bins, params.height, params.width)
    IN  /\ HasKey(SpaceOf(obj), last.id)
        /\ (last.id \in MagnitudeFree) <=> IsNone(magnitudes)
        /\ IsNone(magnitudes) =>
             /\ last.magnitude = RatInt(0) /\ IsNone(last.coin) /\ IsNone(last.idx)
        /\ ~IsNone(magnitudes) =>
             LET bin == The(magnitudes).at[The(last.idx) + 1] IN
             /\ ~IsNone(last.idx)
             /\ last.id \in Unsigned => (last.magnitude = bin /\ IsNone(last.coin))
             /\ last.id \notin Unsigned =>
                  /\ entry.signed /\ ~IsNone(last.coin)
                  /\ last.magnitude = IF The(last.coin) THEN RatNeg(bin) ELSE bin
        /\ last.id = "Solarize" => last.call.threshold = last.magnitude
        /\ last.id = "Rotate" => last.call.angle = last.magnitude
        /\ last.id = "Posterize" => last.call.bits = Trunc(last.magnitude)

\* a signed entry was dispatched with the negation of a non-zero bin
C5_Witness ==
  /\ last # NoDispatch /\ last.id = "ShearX"
  /\ last.coin = Some(TRUE) /\ last.magnitude[1] < 0

\* whether the catalogue entry named by the latest sampling bears a magnitude
SampledBearsMagnitude ==
  ~IsNone(Magnitudes(Lookup(SpaceNamed(args.space), args.id).fn, args.num_bins,
                     params.height, params.width))

C7_InvalidConfigurationRejected ==
  args.cls \in {"AutoAugment", "RandAugment", "TrivialAugmentWide", "AugMix"} =>
    LET bad == \/ args.fill.kind \notin {"number", "tuple", "list"}
               \/ args.cls = "AutoAugment" /\ args.policy \notin {"IMAGENET", "CIFAR10", "SVHN"}
               \/ args.cls = "AugMix" /\ (args.severity < 1 \/ args.severity > 10)
    IN  /\ bad => (raised \in {"TypeError", "ValueError"} /\ obj = NoObj)
        /\ ~bad =>
             /\ raised = "none" /\ obj.kind = args.cls
             /\ obj.fill = args.fill /\ obj.interpolation = args.interpolation
             /\ args.cls = "AugMix" => obj.severity = args.severity
             /\ args.cls = "AutoAugment" => obj.policy = args.policy

\* AugMix(severity=11) raised and left no object
C7_Witness ==
  /\ args.cls = "AugMix" /\ args.severity = 11 /\ args.fill.kind = "tuple"
  /\ raised = "ValueError" /\ obj = NoObj

C8_State ==
  obj.kind = "RandAugment" =>
    /\ IsNone(gate)
    /\ pc = "loop" => (ndispatch = k /\ k <= obj.num_ops)
    /\ pc = "body" =>
         /\ ndispatch = k + 1 /\ k < obj.num_ops
         /\ last # NoDispatch
         /\ HasKey(RandAugment_AUGMENTATION_SPACE, last.id)
         /\ last.bins = obj.num_magnitude_bins
         /\ image = IF last.id = "Identity" THEN last.image_in ELSE Applied(last.image_in)
    /\ (pc = "idle" /\ inpt.type \in {"Image", "PIL", "Tensor"}) =>
         /\ raised = "none"
         /\ ndispatch = obj.num_ops
         /\ result.nops <= obj.num_ops /\ result.type = inpt.type
         /\ obj.num_ops = 0 => result = inpt

C8_Step ==
  (obj.kind = "RandAugment" /\ pc = "loop") =>
    /\ \A mag \in MagnitudeArgs :
         RandAugment_draws([obj EXCEPT !.magnitude = mag]) = RandAugment_draws(obj)
    /\ \A b \in 0..(obj.num_magnitude_bins - 1) : \E d \in RandAugment_draws(obj) : d[2] = b
    /\ pc' = "body" =>
         /\ last'.image_in = image
         /\ IsNone(last'.idx) \/ The(last'.idx) \in 0..(obj.num_magnitude_bins - 1)

\* C8: a RandAugment call on an image dispatches exactly num_ops operations of
\* the RandAugment catalogue, each without probability gating, with a bin index
\* that can be any bin whatever the magnitude parameter is, and each on the
\* image the previous one returned; with num_ops = 0 it returns its input.
C8_RandAugmentChain == [][C8_Step /\ C8_State']_vars

\* a RandAugment call with num_ops = 2 returned an image two operations away from its input
C8_Witness ==
  /\ obj.kind = "RandAugment" /\ obj.num_ops = 2 /\ pc = "idle"
  /\ ndispatch = 2 /\ result.nops = 2 /\ raised = "none"

\* C9: each of the three named policy tables has exactly 25 sub-policies of
\* exactly 2 steps, every probability is in [0, 1], and a step has a bin index
\* exactly when its operation bears a magnitude in the AutoAugment catalogue.
C9_PolicyTablesWellFormed ==
  obj.kind = "AutoAugment" =>
    /\ obj.policy \in {"IMAGENET", "CIFAR10", "SVHN"}
    /\ Len(obj.policies) = 25
    /\ \A n \in 1..Len(obj.policies) :
         /\ Len(obj.policies[n]) = 2
         /\ \A s \in 1..2 :
              LET step == obj.policies[n][s] IN
              /\ RatLeq(RatInt(0), step.probability) /\ RatLeq(step.probability, RatInt(1))
              /\ HasKey(AutoAugment_AUGMENTATION_SPACE, step.id)
              /\ IsNone(step.magnitude_idx) <=>
                   Lookup(AutoAugment_AUGMENTATION_SPACE, step.id).fn.kind = "none"
              /\ IsNone(step.magnitude_idx) <=>
                   step.id \in {"AutoContrast", "Equalize", "Invert"}

\* the SVHN table is loaded; its last sub-policy is (ShearX, 0.7, 2), (Invert, 0.1, None)
C9_Witness ==
  /\ obj.kind = "AutoAugment" /\ obj.policy = "SVHN"
  /\ obj.policies[25][1] = St("ShearX", 7, Some(2))
  /\ obj.policies[25][2] = St("Invert", 1, None)

\* C10: the bin index that selects a magnitude is in [0, bins) for the bin count
\* passed to the magnitude function: a table index in [0, 10) with 10 bins in
\* AutoAugment, a draw in [0, num_magnitude_bins) with num_magnitude_bins bins
\* in RandAugment and TrivialAugmentWide, a draw in [0, severity) with 10 bins
\* and severity <= 10 in AugMix; no call fails on its index.
C10_BinIndexInRange ==
  /\ raised \notin {"IndexError", "ValueError", "KeyError"}
  /\ last # NoDispatch =>
       /\ obj.kind = "AutoAugment" => last.bins = 10
       /\ obj.kind \in {"RandAugment", "TrivialAugmentWide"} =>
            last.bins = obj.num_magnitude_bins
       /\ obj.kind = "AugMix" => (last.bins = 10 /\ obj.severity <= 10)
       /\ ~IsNone(last.idx) =>
            /\ 0 <= The(last.idx) /\ The(last.idx) < last.bins
            /\ obj.kind = "AugMix" => The(last.idx) < obj.severity

\* AugMix of severity 10 selected the last of its 10 bins
C10_Witness ==
  /\ obj.kind = "AugMix" /\ obj.severity = 10
  /\ last # NoDispatch /\ last.idx = Some(9) /\ last.bins = 10

\* the identifiers a strategy can select: the keys of the five catalogues and
\* the operations named in the steps of the three policy tables
CatalogueIds ==
  UNION {{dct[n].id : n \in 1..Len(dct)} :
           dct \in {AutoAugment_AUGMENTATION_SPACE, RandAugment_AUGMENTATION_SPACE,
                    TrivialAugmentWide_AUGMENTATION_SPACE,
                    AugMix_PARTIAL_AUGMENTATION_SPACE, AugMix_AUGMENTATION_SPACE}}

TableIds ==
  UNION {{table[n][s].id : n \in 1..Len(table), s \in 1..2} :
           table \in {IMAGENET_policies, CIFAR10_policies, SVHN_policies}}

OutsideIds == {"Cutout", "Hue", "identity", "none"}

\* whether the dispatcher has a branch for the identifier
HasBranch(id) ==
  apply_image_transform(Value("Image"), id, RatInt(0), "NEAREST", Fill("number", <<0>>)).raised
    = "none"

\* C11: every identifier of a catalogue or of a policy table has a branch in
\* the dispatcher, every operation of a policy table is a key of the
\* AutoAugment catalogue, the dispatcher raises for identifiers outside the
\* closed set, and no strategy call ends in the dispatcher's error or in a
\* failed catalogue lookup: what is dispatched is always a known operation.
C11_CataloguesInSync ==
  /\ \A id \in CatalogueIds \cup TableIds : HasBranch(id)
  /\ \A id \in TableIds : HasKey(AutoAugment_AUGMENTATION_SPACE, id)
  /\ \A id \in OutsideIds : ~HasBranch(id)
  /\ raised \notin {"ValueError", "KeyError"}
  /\ last # NoDispatch =>
       /\ last.id \in CatalogueIds /\ HasKey(SpaceOf(obj), last.id)
       /\ HasBranch(last.id)
       /\ last.id # "Identity" => last.call.fn # "none"

\* AutoAugment dispatched Invert, which only its policy tables name
C11_Witness ==
  /\ obj.kind = "AutoAugment" /\ raised = "none"
  /\ last # NoDispatch /\ last.id = "Invert" /\ last.call.fn = "invert"
  /\ image = Applied(last.image_in)

\* the depths a chain of the object can have
AllowedDepths == IF obj.chain_depth > 0 THEN {obj.chain_depth} ELSE {1, 2, 3}

\* the catalogue the operations of the object's chains are drawn from
ChainIds ==
  IF obj.all_ops
  THEN {"ShearX", "ShearY", "TranslateX", "TranslateY", "Rotate", "Posterize", "Solarize",
        "AutoContrast", "Equalize", "Brightness", "Color", "Contrast", "Sharpness"}
  ELSE {"ShearX", "ShearY", "TranslateX", "TranslateY", "Rotate", "Posterize", "Solarize",
        "AutoContrast", "Equalize"}

MaxOf(a, b) == IF a >= b THEN a ELSE b

C12_State ==
  obj.kind = "AugMix" =>
    /\ pc = "chains" =>
         /\ k <= obj.mixture_width
         /\ Len(mix.blend) = k + 1
         /\ mix.blend[1].image = Batch(inpt)
         /\ ndispatch <= k * MaxOf(obj.chain_depth, 3)
         /\ obj.chain_depth > 0 => ndispatch = k * obj.chain_depth
    /\ pc \in {"loop", "body"} =>
         /\ k < obj.mixture_width /\ depth \in AllowedDepths
         /\ Len(mix.blend) = k + 1
         /\ j <= depth
    /\ pc = "body" =>
         /\ j < depth /\ last # NoDispatch /\ last.id \in ChainIds
         /\ image = Applied(last.image_in)
    /\ (pc = "idle" /\ inpt.type \in {"Image", "PIL", "Tensor"}) =>
         /\ raised = "none"
         /\ Len(result.blend) = obj.mixture_width + 1
         /\ ndispatch <= obj.mixture_width * MaxOf(obj.chain_depth, 3)
         /\ ndispatch >= obj.mixture_width
         /\ \A i \in 2..Len(result.blend) : result.blend[i].image.blend = <<>>

C12_Step ==
  obj.kind = "AugMix" =>
    /\ (pc = "chains" /\ pc' = "loop") =>
         /\ image' = Batch(inpt) /\ j' = 0 /\ depth' \in AllowedDepths
         /\ mix' = mix /\ ndispatch' = ndispatch
    /\ (pc = "loop" /\ pc' = "body") =>
         /\ last'.image_in = image
         /\ j = 0 => last'.image_in = Batch(inpt)
         /\ ndispatch' = ndispatch + 1 /\ mix' = mix
    /\ (pc = "body" /\ pc' = "loop") => (j' = j + 1 /\ image' = image /\ mix' = mix)
    /\ (pc = "loop" /\ pc' = "chains") =>
         /\ j = depth
         /\ k' = k + 1
         /\ mix'.blend = Append(mix.blend, [w |-> combined_weights[k + 1], image |-> image])
         /\ ndispatch' = ndispatch

\* C12: in an AugMix call every chain starts from the original image, dispatches
\* exactly depth operations in sequence, each on the image the previous one
\* returned, depth being chain_depth when chain_depth > 0 and otherwise a
\* per-chain draw from {1, 2, 3}, and adds one term to the accumulator, after
\* its last operation; the operations are keys of the full catalogue when
\* all_ops is true and of the reduced one otherwise; a call dispatches at most
\* mixture_width * max(chain_depth, 3) operations.
C12_AugMixChains == [][C12_Step /\ C12_State']_vars

\* a call with two chains of drawn depths 3 and 1 returned a mix of three terms
C12_Witness ==
  /\ obj.kind = "AugMix" /\ obj.mixture_width = 2 /\ obj.chain_depth = 0 /\ ~obj.all_ops
  /\ pc = "idle" /\ raised = "none" /\ ndispatch = 4
  /\ Len(result.blend) = 3
  /\ result.blend[2].image.nops = 3 /\ result.blend[3].image.nops = 1

C13_State ==
  /\ obj = Construct(args).obj
  /\ obj.kind = "AutoAugment" => obj.policies = get_policies(args.policy).value
  /\ pc = "idle" =>
       /\ params = NoParams /\ m = <<>> /\ combined_weights = <<>>
       /\ mix = NoValue /\ image = NoValue

C13_Step ==
  /\ obj' = obj /\ args' = args
  /\ (pc = "idle" /\ pc' = "transform") =>
       /\ <<params'.height, params'.width>> \in ImageSizes
       /\ obj.kind = "AutoAugment" =>
            \E n \in 1..Len(obj.policies) : params'.policy = obj.policies[n]
       /\ m' = <<>> /\ combined_weights' = <<>> /\ mix' = NoValue
       /\ ndispatch' = 0 /\ last' = NoDispatch

\* C13: no step of any call, on an image or on another value, changes the
\* strategy object: its parameters and its loaded policy table are after every
\* step what the constructor made of the arguments; the sub-policy, height,
\* width and mixture weights of a call are gone when the call has ended, and a
\* new call starts from parameters computed for it alone.
C13_ConfigurationUnchanged == [][C13_Step /\ C13_State']_vars

\* an AutoAugment call on an image has dispatched both its steps and ended,
\* and the object is what the constructor made
C13_Witness ==
  /\ obj.kind = "AutoAugment" /\ obj = Construct(args).obj
  /\ pc = "idle" /\ ndispatch = 2 /\ result.nops = 2 /\ params = NoParams

=============================================================================
